---- MODULE Spec2Model ----
(***************************************************************************)
(* A model of struct SmartDevice of SoloLinkedList.cpp: one device, its    *)
(* six fields, its log file handle, and the stream of output it produces.  *)
(*                                                                         *)
(* Representation.                                                         *)
(*  - int is the 32-bit two's complement int of the build; + and - wrap    *)
(*    (AddInt, SubInt).                                                    *)
(*  - float values are counted in half degrees (45 is 22.5f).  Every       *)
(*    integer of magnitude up to 2^24 is a float; above, FloatRound rounds *)
(*    to the nearest float, ties to even, as IEEE-754 single precision.    *)
(*  - io is the sequence of output events of the device, in program        *)
(*    order: the open and close of the log file, each line written to the  *)
(*    file, to cout and to cerr.  A line is kept as the device name it is  *)
(*    prefixed with and its message; the timestamp is left out.            *)
(*  - last records the call that produced the current state: its name,     *)
(*    its argument, its return value and the fields before it.             *)
(*  - nCalls counts the calls that log (the mutators and                   *)
(*    performDiagnostics) since construction, nDiag                        *)
(*    those of performDiagnostics; ctorLogs is the number of log calls the *)
(*    constructor made.                                                    *)
(***************************************************************************)
EXTENDS Integers, Sequences, FiniteSets, TLC

VARIABLES deviceName, deviceType, isPoweredOn, batteryLevel, temperature,
          location, logFile, io, life, last, nCalls, nDiag, ctorLogs

fields == <<deviceName, deviceType, isPoweredOn, batteryLevel, temperature, location>>
vars == <<deviceName, deviceType, isPoweredOn, batteryLevel, temperature,
          location, logFile, io, life, last, nCalls, nDiag, ctorLogs>>

(***************************************************************************)
(* Bounds                                                                  *)
(***************************************************************************)
\* the number of logging calls (mutators, performDiagnostics) between the
\* constructor and the destructor; queries are made before the last of them
MaxCalls == 1

(***************************************************************************)
(* Machine arithmetic                                                      *)
(***************************************************************************)
IntMax == 2147483647
IntMin == -IntMax - 1

\* a + b on int, wrapping modulo 2^32
AddInt(a, b) ==
    IF a > 0 /\ b > 0 /\ a > IntMax - b
    THEN (a - IntMax - 1) + (b - IntMax - 1)
    ELSE IF a < 0 /\ b < 0 /\ a < IntMin - b
         THEN (a + IntMax + 1) + (b + IntMax + 1)
         ELSE a + b

\* a - b on int, wrapping modulo 2^32
SubInt(a, b) ==
    IF b = IntMin
    THEN (IF a >= 0 THEN a + IntMin ELSE (a + IntMax) + 1)
    ELSE AddInt(a, -b)

Abs(n) == IF n < 0 THEN -n ELSE n

\* 2^24 half degrees: the first magnitude at which floats are 2 apart
FloatExact == 16777216

\* the distance between neighbouring floats at magnitude n
Ulp(n) == IF Abs(n) < FloatExact THEN 1
          ELSE IF Abs(n) < 2 * FloatExact THEN 2 ELSE 4

\* the float nearest to n, ties to the even significand
FloatRound(n) ==
    LET u == Ulp(n)
        q == Abs(n) \div u
        r == Abs(n) % u
        m == IF 2 * r < u THEN q
             ELSE IF 2 * r > u THEN q + 1
             ELSE IF q % 2 = 0 THEN q ELSE q + 1
    IN  IF n < 0 THEN -(m * u) ELSE m * u

\* a + b on float
FloatAdd(a, b) == FloatRound(a + b)

(***************************************************************************)
(* std::to_string                                                          *)
(***************************************************************************)
IntToString(n) == ToString(n)

\* to_string(float) prints "%f": six decimals
FloatToString(n) ==
    (IF n < 0 THEN "-" ELSE "") \o ToString(Abs(n) \div 2)
        \o (IF Abs(n) % 2 = 1 THEN ".500000" ELSE ".000000")

(***************************************************************************)
(* Arguments the callers pass                                              *)
(***************************************************************************)
Names == {"X", "Main Hub"}
Types == {"Y"}
Locations == {"Z"}
BatteryArgs == {IntMin, -5, 0, 19, 20, 100, 150, IntMax}
ChargeArgs == {-30, 90, IntMax}
TempArgs == {-1, 0, 80, 81, FloatExact}
DeltaArgs == {-5, 1}

(***************************************************************************)
(* Logging                                                                 *)
(***************************************************************************)
LogFileName == "device_log.txt"

Event(ch, name, message) == [ch |-> ch, name |-> name, message |-> message]

\* initLogger: the open succeeds (ok) or fails, and a failure is reported on cerr
initLogger(t, ok) ==
    IF ok THEN t \o <<Event("open", "", LogFileName)>>
    ELSE t \o <<Event("openfail", "", LogFileName),
                Event("cerr", "", "Failed to open log file: " \o LogFileName)>>

\* log writing to cout before the file
logConsoleFirst(t, open, name, message) ==
    t \o <<Event("cout", name, message)>>
      \o (IF open THEN <<Event("file", name, message)>> ELSE <<>>)

\* log returning early when the file is not open
logOnlyIfOpen(t, open, name, message) ==
    IF open
    THEN t \o <<Event("file", name, message), Event("cout", name, message)>>
    ELSE t

\* log: the line goes to the file if it is open, then to cout
log(t, open, name, message) ==
    t \o (IF open THEN <<Event("file", name, message)>> ELSE <<>>)
      \o <<Event("cout", name, message)>>

Lines(t, ch) == SelectSeq(t, LAMBDA e : e.ch = ch)
Console == Lines(io, "cout")
Sink == Lines(io, "file")

OnOff(b) == IF b THEN "ON" ELSE "OFF"

Old == [deviceName |-> deviceName, deviceType |-> deviceType,
        isPoweredOn |-> isPoweredOn, batteryLevel |-> batteryLevel,
        temperature |-> temperature, location |-> location,
        logFile |-> logFile, io |-> io]

Call(op, arg, ret) == [op |-> op, arg |-> arg, ret |-> ret, old |-> Old]

(***************************************************************************)
(* Before construction                                                     *)
(***************************************************************************)
Init ==
    /\ deviceName = ""
    /\ deviceType = ""
    /\ isPoweredOn = FALSE
    /\ batteryLevel = 0
    /\ temperature = 0
    /\ location = ""
    /\ logFile = FALSE
    /\ io = <<>>
    /\ life = "unborn"
    /\ last = [op |-> "none", arg |-> <<>>, ret |-> "void",
               old |-> [deviceName |-> "", deviceType |-> "",
                        isPoweredOn |-> FALSE, batteryLevel |-> 0,
                        temperature |-> 0, location |-> "",
                        logFile |-> FALSE, io |-> <<>>]]
    /\ nCalls = 0
    /\ nDiag = 0
    /\ ctorLogs = 0

(***************************************************************************)
(* Constructors                                                            *)
(***************************************************************************)
Born(op, arg, logs) ==
    /\ life = "unborn"
    /\ life' = "alive"
    /\ last' = Call(op, arg, "void")
    /\ nCalls' = 0
    /\ nDiag' = 0
    /\ ctorLogs' = logs

\* the output of SmartDevice()
DefaultIo(ok) ==
    log(initLogger(io, ok), ok, "Unknown", "Device created with default parameters")

\* the output of SmartDevice(name)
NameIo(name, ok) ==
    log(DefaultIo(ok), ok, name, "Device name set to: " \o name)

\* SmartDevice(name, type) without its log call
NameTypeIoNoEntry(name, type, ok) == NameIo(name, ok)

\* the output of SmartDevice(name, type)
NameTypeIo(name, type, ok) ==
    log(NameIo(name, ok), ok, name, "Device type set to: " \o type)

\* the output of SmartDevice(name, type, loc)
NameTypeLocIo(name, type, loc, ok) ==
    log(NameTypeIo(name, type, ok), ok, name, "Device location set to: " \o loc)

\* SmartDevice()
SmartDevice0(ok) ==
    /\ Born("SmartDevice()", <<>>, 1)
    /\ deviceName' = "Unknown"
    /\ deviceType' = "Generic"
    /\ isPoweredOn' = FALSE
    /\ batteryLevel' = 100
    /\ temperature' = 40
    /\ location' = "Not set"
    /\ logFile' = ok
    /\ io' = DefaultIo(ok)

\* SmartDevice(name)
SmartDevice1(name, ok) ==
    /\ Born("SmartDevice(name)", <<name>>, 2)
    /\ deviceName' = name
    /\ deviceType' = "Generic"
    /\ isPoweredOn' = FALSE
    /\ batteryLevel' = 100
    /\ temperature' = 40
    /\ location' = "Not set"
    /\ logFile' = ok
    /\ io' = NameIo(name, ok)

\* SmartDevice(name, type)
SmartDevice2(name, type, ok) ==
    /\ Born("SmartDevice(name,type)", <<name, type>>, 3)
    /\ deviceName' = name
    /\ deviceType' = type
    /\ isPoweredOn' = FALSE
    /\ batteryLevel' = 100
    /\ temperature' = 40
    /\ location' = "Not set"
    /\ logFile' = ok
    /\ io' = NameTypeIo(name, type, ok)

\* SmartDevice(name, type, loc)
SmartDevice3(name, type, loc, ok) ==
    /\ Born("SmartDevice(name,type,loc)", <<name, type, loc>>, 4)
    /\ deviceName' = name
    /\ deviceType' = type
    /\ isPoweredOn' = FALSE
    /\ batteryLevel' = 100
    /\ temperature' = 40
    /\ location' = loc
    /\ logFile' = ok
    /\ io' = NameTypeLocIo(name, type, loc, ok)

\* SmartDevice(name, type, powered, battery, temp, loc)
SmartDevice6(name, type, powered, battery, temp, loc, ok) ==
    /\ Born("SmartDevice(name,type,powered,battery,temp,loc)",
            [name |-> name, type |-> type, powered |-> powered,
             battery |-> battery, temp |-> temp, loc |-> loc], 1)
    /\ deviceName' = name
    /\ deviceType' = type
    /\ isPoweredOn' = powered
    /\ batteryLevel' = battery
    /\ temperature' = temp
    /\ location' = loc
    /\ logFile' = ok
    /\ io' = log(initLogger(io, ok), ok, name,
                 "Device fully initialized with custom parameters")

(***************************************************************************)
(* Destructor                                                              *)
(***************************************************************************)
\* the destructor closing the file before it logs
DestroyCloseFirst ==
    /\ life = "alive"
    /\ life' = "destroyed"
    /\ last' = Call("~SmartDevice", <<>>, "void")
    /\ io' = log(io \o (IF logFile THEN <<Event("close", "", LogFileName)>> ELSE <<>>),
                 FALSE, deviceName, "Device " \o deviceName \o " destroyed")
    /\ logFile' = FALSE
    /\ UNCHANGED <<fields, nCalls, nDiag, ctorLogs>>

Destroy ==
    /\ life = "alive"
    /\ life' = "destroyed"
    /\ last' = Call("~SmartDevice", <<>>, "void")
    /\ io' = log(io, logFile, deviceName, "Device " \o deviceName \o " destroyed")
               \o (IF logFile THEN <<Event("close", "", LogFileName)>> ELSE <<>>)
    /\ logFile' = FALSE
    /\ UNCHANGED <<fields, nCalls, nDiag, ctorLogs>>

(***************************************************************************)
(* Member functions                                                        *)
(***************************************************************************)
Called(op, arg, ret) ==
    /\ life = "alive"
    /\ nCalls < MaxCalls
    /\ nCalls' = nCalls + 1
    /\ nDiag' = IF op = "performDiagnostics" THEN nDiag + 1 ELSE nDiag
    /\ last' = Call(op, arg, ret)
    /\ UNCHANGED <<life, logFile, ctorLogs>>

\* setDeviceName logging before it assigns
setDeviceNameLogFirst(name) ==
    /\ Called("setDeviceName", name, "void")
    /\ io' = log(io, logFile, deviceName, "Device name changed to: " \o name)
    /\ deviceName' = name
    /\ UNCHANGED <<deviceType, isPoweredOn, batteryLevel, temperature, location>>

setDeviceName(name) ==
    /\ Called("setDeviceName", name, "void")
    /\ deviceName' = name
    /\ io' = log(io, logFile, name, "Device name changed to: " \o name)
    /\ UNCHANGED <<deviceType, isPoweredOn, batteryLevel, temperature, location>>

\* setDeviceType without its log call
setDeviceTypeSilent(type) ==
    /\ Called("setDeviceType", type, "void")
    /\ deviceType' = type
    /\ UNCHANGED <<deviceName, isPoweredOn, batteryLevel, temperature, location, io>>

setDeviceType(type) ==
    /\ Called("setDeviceType", type, "void")
    /\ deviceType' = type
    /\ io' = log(io, logFile, deviceName, "Device type changed to: " \o type)
    /\ UNCHANGED <<deviceName, isPoweredOn, batteryLevel, temperature, location>>

setPoweredOn(powered) ==
    /\ Called("setPoweredOn", powered, "void")
    /\ isPoweredOn' = powered
    /\ io' = log(io, logFile, deviceName,
                 "Device power state changed to: " \o OnOff(powered))
    /\ UNCHANGED <<deviceName, deviceType, batteryLevel, temperature, location>>

\* setBatteryLevel without its upper bound
ClampLevelNoCap(level) == IF level < 0 THEN 0 ELSE level

\* the two ifs of setBatteryLevel, in their order
ClampLevel(level) ==
    LET l1 == IF level < 0 THEN 0 ELSE level
    IN  IF l1 > 100 THEN 100 ELSE l1

setBatteryLevel(level) ==
    /\ Called("setBatteryLevel", level, "void")
    /\ batteryLevel' = ClampLevel(level)
    /\ io' = log(io, logFile, deviceName,
                 "Battery level set to: " \o IntToString(ClampLevel(level)) \o "%")
    /\ UNCHANGED <<deviceName, deviceType, isPoweredOn, temperature, location>>

\* setTemperature behind the power check of adjustTemperature
setTemperatureGated(temp) ==
    IF ~isPoweredOn
    THEN /\ Called("setTemperature", temp, "void")
         /\ io' = log(io, logFile, deviceName,
                      "Cannot adjust temperature - device is powered off")
         /\ UNCHANGED fields
    ELSE /\ Called("setTemperature", temp, "void")
         /\ temperature' = temp
         /\ io' = log(io, logFile, deviceName,
                      "Temperature set to: " \o FloatToString(temp) \o "°C")
         /\ UNCHANGED <<deviceName, deviceType, isPoweredOn, batteryLevel, location>>

setTemperature(temp) ==
    /\ Called("setTemperature", temp, "void")
    /\ temperature' = temp
    /\ io' = log(io, logFile, deviceName,
                 "Temperature set to: " \o FloatToString(temp) \o "°C")
    /\ UNCHANGED <<deviceName, deviceType, isPoweredOn, batteryLevel, location>>

setLocation(loc) ==
    /\ Called("setLocation", loc, "void")
    /\ location' = loc
    /\ io' = log(io, logFile, deviceName, "Location changed to: " \o loc)
    /\ UNCHANGED <<deviceName, deviceType, isPoweredOn, batteryLevel, temperature>>

powerToggle ==
    /\ Called("powerToggle", <<>>, "void")
    /\ isPoweredOn' = ~isPoweredOn
    /\ io' = log(io, logFile, deviceName, "Device toggled to: " \o OnOff(~isPoweredOn))
    /\ UNCHANGED <<deviceName, deviceType, batteryLevel, temperature, location>>

\* newLevel of chargeBattery
NewLevel(level, amount) ==
    LET sum == AddInt(level, amount)
    IN  IF sum > 100 THEN 100 ELSE sum

\* chargeBattery without its power check
chargeBatteryUngated(amount) ==
    LET newLevel == NewLevel(batteryLevel, amount)
        charged == SubInt(newLevel, batteryLevel)
    IN  /\ Called("chargeBattery", amount, TRUE)
        /\ batteryLevel' = newLevel
        /\ io' = log(io, logFile, deviceName,
                     "Battery charged by " \o IntToString(charged)
                       \o "%. New level: " \o IntToString(newLevel) \o "%")
        /\ UNCHANGED <<deviceName, deviceType, isPoweredOn, temperature, location>>

chargeBattery(amount) ==
    IF ~isPoweredOn
    THEN /\ Called("chargeBattery", amount, FALSE)
         /\ io' = log(io, logFile, deviceName, "Cannot charge - device is powered off")
         /\ UNCHANGED fields
    ELSE LET newLevel == NewLevel(batteryLevel, amount)
             charged == SubInt(newLevel, batteryLevel)
         IN  /\ Called("chargeBattery", amount, TRUE)
             /\ batteryLevel' = newLevel
             /\ io' = log(io, logFile, deviceName,
                          "Battery charged by " \o IntToString(charged)
                            \o "%. New level: " \o IntToString(newLevel) \o "%")
             /\ UNCHANGED <<deviceName, deviceType, isPoweredOn, temperature, location>>

\* adjustTemperature without its power check
adjustTemperatureUngated(delta) ==
    LET oldTemp == temperature
        newTemp == FloatAdd(temperature, delta)
    IN  /\ Called("adjustTemperature", delta, "void")
        /\ temperature' = newTemp
        /\ io' = log(io, logFile, deviceName,
                     "Temperature adjusted from " \o FloatToString(oldTemp)
                       \o "°C to " \o FloatToString(newTemp) \o "°C")
        /\ UNCHANGED <<deviceName, deviceType, isPoweredOn, batteryLevel, location>>

\* adjustTemperature keeping the result within the operating range
adjustTemperatureClamped(delta) ==
    IF ~isPoweredOn
    THEN /\ Called("adjustTemperature", delta, "void")
         /\ io' = log(io, logFile, deviceName,
                      "Cannot adjust temperature - device is powered off")
         /\ UNCHANGED fields
    ELSE LET oldTemp == temperature
             sum == FloatAdd(temperature, delta)
             newTemp == IF sum < 0 THEN 0 ELSE IF sum > 80 THEN 80 ELSE sum
         IN  /\ Called("adjustTemperature", delta, "void")
             /\ temperature' = newTemp
             /\ io' = log(io, logFile, deviceName,
                          "Temperature adjusted from " \o FloatToString(oldTemp)
                            \o "°C to " \o FloatToString(newTemp) \o "°C")
             /\ UNCHANGED <<deviceName, deviceType, isPoweredOn, batteryLevel, location>>

adjustTemperature(delta) ==
    IF ~isPoweredOn
    THEN /\ Called("adjustTemperature", delta, "void")
         /\ io' = log(io, logFile, deviceName,
                      "Cannot adjust temperature - device is powered off")
         /\ UNCHANGED fields
    ELSE LET oldTemp == temperature
             newTemp == FloatAdd(temperature, delta)
         IN  /\ Called("adjustTemperature", delta, "void")
             /\ temperature' = newTemp
             /\ io' = log(io, logFile, deviceName,
                          "Temperature adjusted from " \o FloatToString(oldTemp)
                            \o "°C to " \o FloatToString(newTemp) \o "°C")
             /\ UNCHANGED <<deviceName, deviceType, isPoweredOn, batteryLevel, location>>

\* isLowBattery with the threshold included
isLowBatteryInclusive == batteryLevel <= 20

isLowBattery == batteryLevel < 20

\* the temperature warning with its bounds included
TemperatureOutOfRangeInclusive == temperature <= 0 \/ temperature >= 80

\* the condition of the temperature warning: 0 is 0 degrees, 80 is 40 degrees
TemperatureOutOfRange == temperature < 0 \/ temperature > 80

\* performDiagnostics without the else branches of its two checks
DiagnosticsIoWarnOnly(t) ==
    LET t1 == log(t, logFile, deviceName, "Starting diagnostics...")
        t2 == log(t1, logFile, deviceName,
                  "Checking power: " \o (IF isPoweredOn THEN "OK" ELSE "OFF"))
        t3 == log(t2, logFile, deviceName,
                  "Checking battery level: " \o IntToString(batteryLevel) \o "%")
        t4 == IF batteryLevel < 20
              THEN log(t3, logFile, deviceName, "WARNING: Low battery detected!")
              ELSE t3
        t5 == log(t4, logFile, deviceName,
                  "Checking temperature: " \o FloatToString(temperature) \o "°C")
        t6 == IF temperature < 0 \/ temperature > 80
              THEN log(t5, logFile, deviceName,
                       "WARNING: Temperature outside normal operating range!")
              ELSE t5
    IN  log(t6, logFile, deviceName, "Diagnostics completed")

\* the lines of performDiagnostics, in order
DiagnosticsIo(t) ==
    LET t1 == log(t, logFile, deviceName, "Starting diagnostics...")
        t2 == log(t1, logFile, deviceName,
                  "Checking power: " \o (IF isPoweredOn THEN "OK" ELSE "OFF"))
        t3 == log(t2, logFile, deviceName,
                  "Checking battery level: " \o IntToString(batteryLevel) \o "%")
        t4 == IF isLowBattery
              THEN log(t3, logFile, deviceName, "WARNING: Low battery detected!")
              ELSE log(t3, logFile, deviceName, "Battery level OK")
        t5 == log(t4, logFile, deviceName,
                  "Checking temperature: " \o FloatToString(temperature) \o "°C")
        t6 == IF TemperatureOutOfRange
              THEN log(t5, logFile, deviceName,
                       "WARNING: Temperature outside normal operating range!")
              ELSE log(t5, logFile, deviceName, "Temperature OK")
    IN  log(t6, logFile, deviceName, "Diagnostics completed")

performDiagnostics ==
    /\ Called("performDiagnostics", <<>>, "void")
    /\ io' = DiagnosticsIo(io)
    /\ UNCHANGED fields

(***************************************************************************)
(* Queries                                                                 *)
(***************************************************************************)
getDeviceName == deviceName
getDeviceType == deviceType
getIsPoweredOn == isPoweredOn
getBatteryLevel == batteryLevel
getTemperature == temperature
getLocation == location

getDeviceStatus ==
    "Device: " \o deviceName \o " (" \o deviceType \o ")\n"
        \o "Location: " \o location \o "\n"
        \o "Power: " \o OnOff(isPoweredOn) \o "\n"
        \o "Battery: " \o IntToString(batteryLevel) \o "%\n"
        \o "Temperature: " \o FloatToString(temperature) \o "°C"

Queries == {"getDeviceName", "getDeviceType", "getIsPoweredOn", "getBatteryLevel",
            "getTemperature", "getLocation", "isLowBattery", "getDeviceStatus"}

\* what the const member function q returns
Returned(q) ==
    CASE q = "getDeviceName" -> getDeviceName
      [] q = "getDeviceType" -> getDeviceType
      [] q = "getIsPoweredOn" -> getIsPoweredOn
      [] q = "getBatteryLevel" -> getBatteryLevel
      [] q = "getTemperature" -> getTemperature
      [] q = "getLocation" -> getLocation
      [] q = "isLowBattery" -> isLowBattery
      [] q = "getDeviceStatus" -> getDeviceStatus

\* a query that logs its call
QueryLogging(q) ==
    /\ life = "alive"
    /\ nCalls < MaxCalls
    /\ last' = Call(q, <<>>, Returned(q))
    /\ io' = log(io, logFile, deviceName, q)
    /\ UNCHANGED <<fields, logFile, life, nCalls, nDiag, ctorLogs>>

\* a call of the const member function q
Query(q) ==
    /\ life = "alive"
    /\ nCalls < MaxCalls
    /\ last' = Call(q, <<>>, Returned(q))
    /\ UNCHANGED <<fields, logFile, io, life, nCalls, nDiag, ctorLogs>>

(***************************************************************************)
(* Specification                                                           *)
(***************************************************************************)
Next ==
    \/ \E ok \in BOOLEAN : SmartDevice0(ok)
    \/ \E ok \in BOOLEAN, name \in Names : SmartDevice1(name, ok)
    \/ \E ok \in BOOLEAN, name \in Names, type \in Types : SmartDevice2(name, type, ok)
    \/ \E ok \in BOOLEAN, name \in Names, type \in Types, loc \in Locations :
          SmartDevice3(name, type, loc, ok)
    \/ \E ok \in BOOLEAN, name \in Names, type \in Types, loc \in Locations,
          powered \in BOOLEAN, battery \in BatteryArgs, temp \in TempArgs :
          SmartDevice6(name, type, powered, battery, temp, loc, ok)
    \/ Destroy
    \/ \E name \in Names : setDeviceName(name)
    \/ \E type \in Types : setDeviceType(type)
    \/ \E powered \in BOOLEAN : setPoweredOn(powered)
    \/ \E level \in BatteryArgs : setBatteryLevel(level)
    \/ \E temp \in TempArgs : setTemperature(temp)
    \/ \E loc \in Locations : setLocation(loc)
    \/ powerToggle
    \/ \E amount \in ChargeArgs : chargeBattery(amount)
    \/ \E delta \in DeltaArgs : adjustTemperature(delta)
    \/ performDiagnostics
    \/ \E q \in Queries : Query(q)

Spec == Init /\ [][Next]_vars

(***************************************************************************)
(* What a call did                                                         *)
(***************************************************************************)
\* the output events of the last call
Emitted == SubSeq(io, Len(last.old.io) + 1, Len(io))

\* the log entries of the last call, as written to cout and to the file
Entries == Lines(Emitted, "cout")
FileEntries == Lines(Emitted, "file")
Messages == {Entries[i].message : i \in 1..Len(Entries)}

\* the last call made one log call
OneEntry ==
    /\ Len(Entries) = 1
    /\ Len(FileEntries) = (IF last.old.logFile THEN 1 ELSE 0)

FieldsUnchanged ==
    /\ deviceName = last.old.deviceName
    /\ deviceType = last.old.deviceType
    /\ isPoweredOn = last.old.isPoweredOn
    /\ batteryLevel = last.old.batteryLevel
    /\ temperature = last.old.temperature
    /\ location = last.old.location

Clamp(v, lo, hi) == IF v < lo THEN lo ELSE IF v > hi THEN hi ELSE v

\* min(100, old + amount) in the integers, for old in 0..100 and amount >= 0
MinSum100(old, amount) == IF amount >= 100 - old THEN 100 ELSE old + amount

Mutators == {"setDeviceName", "setDeviceType", "setLocation", "setPoweredOn",
             "setBatteryLevel", "setTemperature", "powerToggle",
             "chargeBattery", "adjustTemperature"}

FullCtor == "SmartDevice(name,type,powered,battery,temp,loc)"

(***************************************************************************)
(* Claims                                                                  *)
(***************************************************************************)

\* C1: in every state of a constructed device, batteryLevel is in [0, 100].
C1_BatteryInRange == life # "unborn" => batteryLevel \in 0..100

\* C2: the six-argument constructor stores clamp(battery, 0, 100) as
\* batteryLevel and every other argument as given.
C2_FullCtorClamps ==
    last.op = FullCtor =>
        /\ batteryLevel = Clamp(last.arg.battery, 0, 100)
        /\ deviceName = last.arg.name
        /\ deviceType = last.arg.type
        /\ isPoweredOn = last.arg.powered
        /\ temperature = last.arg.temp
        /\ location = last.arg.loc

\* C3: chargeBattery(amount) on a powered-on device whose level is in
\* [0, 100] returns true and stores min(100, old + amount), for every int
\* amount >= 0.
C3_ChargeWhenOn ==
    (/\ last.op = "chargeBattery"
     /\ last.old.isPoweredOn
     /\ last.arg >= 0
     /\ last.old.batteryLevel \in 0..100)
    => /\ last.ret = TRUE
       /\ batteryLevel = MinSum100(last.old.batteryLevel, last.arg)

\* C4: chargeBattery(amount) on a powered-off device returns false, makes one
\* log entry that gives the reason, and changes no field.
C4_ChargeWhenOff ==
    (last.op = "chargeBattery" /\ ~last.old.isPoweredOn)
    => /\ last.ret = FALSE
       /\ OneEntry
       /\ Entries[1].message = "Cannot charge - device is powered off"
       /\ FieldsUnchanged

C4_Witness ==
    /\ last.op = "chargeBattery"
    /\ ~last.old.isPoweredOn
    /\ last.arg = 90
    /\ batteryLevel = 19

\* C5: after setBatteryLevel(b) the level is clamp(b, 0, 100), whatever the
\* previous level and power state.
C5_SetBatteryClamps ==
    last.op = "setBatteryLevel" =>
        batteryLevel = (IF last.arg < 0 THEN 0
                        ELSE IF last.arg > 100 THEN 100 ELSE last.arg)

C5_Witness ==
    /\ last.op = "setBatteryLevel"
    /\ last.arg = 150
    /\ batteryLevel = 100
    /\ last.old.batteryLevel = -5
    /\ ~isPoweredOn

\* C6: every call of a mutator makes exactly one log entry, applied or
\* rejected; after N such calls on a fresh device the log holds the entries of
\* the constructor plus N, and one more after destruction.
C6_OneEntryPerMutation ==
    /\ last.op \in Mutators => OneEntry
    /\ (life # "unborn" /\ nDiag = 0) =>
          /\ Len(Console) = ctorLogs + nCalls + (IF life = "destroyed" THEN 1 ELSE 0)
          /\ (\E i \in 1..Len(io) : io[i].ch = "open") => Len(Sink) = Len(Console)

C6_Witness ==
    /\ life = "destroyed"
    /\ nCalls = MaxCalls
    /\ nDiag = 0
    /\ Len(Console) = ctorLogs + MaxCalls + 1

\* C7 as claimed: performDiagnostics makes 5 entries, plus one for each
\* warning condition that holds.
C7_DiagnosticsFiveToSeven ==
    last.op = "performDiagnostics" =>
        Len(Entries) = 5 + (IF batteryLevel < 20 THEN 1 ELSE 0)
                         + (IF temperature < 0 \/ temperature > 80 THEN 1 ELSE 0)

\* C7 as amended: performDiagnostics makes 7 entries in every case: the five
\* fixed ones and, for each of the two checks, either its warning or its OK
\* entry.
C7_DiagnosticsAlwaysSeven ==
    last.op = "performDiagnostics" =>
        /\ Len(Entries) = 7
        /\ Len(FileEntries) = (IF last.old.logFile THEN 7 ELSE 0)
        /\ Entries[1].message = "Starting diagnostics..."
        /\ Entries[2].message \in {"Checking power: OK", "Checking power: OFF"}
        /\ Entries[3].message = "Checking battery level: " \o IntToString(batteryLevel) \o "%"
        /\ Entries[4].message \in {"WARNING: Low battery detected!", "Battery level OK"}
        /\ Entries[5].message = "Checking temperature: " \o FloatToString(temperature) \o "°C"
        /\ Entries[6].message \in {"WARNING: Temperature outside normal operating range!",
                                   "Temperature OK"}
        /\ Entries[7].message = "Diagnostics completed"

C7_Witness ==
    /\ last.op = "performDiagnostics"
    /\ batteryLevel >= 20
    /\ temperature >= 0
    /\ temperature <= 80
    /\ Len(Entries) = 7

\* C8: performDiagnostics makes the low-battery warning iff batteryLevel < 20
\* and the temperature warning iff temperature < 0 or temperature > 40.
C8_WarningsIff ==
    last.op = "performDiagnostics" =>
        /\ ("WARNING: Low battery detected!" \in Messages) <=> (batteryLevel < 20)
        /\ ("WARNING: Temperature outside normal operating range!" \in Messages)
              <=> (temperature < 0 \/ temperature > 80)

C8_Witness ==
    /\ last.op = "performDiagnostics"
    /\ batteryLevel < 20
    /\ temperature > 80
    /\ "WARNING: Low battery detected!" \in Messages
    /\ "WARNING: Temperature outside normal operating range!" \in Messages

\* C9: adjustTemperature(delta) on a powered-off device changes no field and
\* makes one log entry that gives the reason.
C9_AdjustWhenOff ==
    (last.op = "adjustTemperature" /\ ~last.old.isPoweredOn)
    => /\ FieldsUnchanged
       /\ OneEntry
       /\ Entries[1].message = "Cannot adjust temperature - device is powered off"

C9_Witness ==
    /\ last.op = "adjustTemperature"
    /\ ~last.old.isPoweredOn
    /\ last.arg = -5
    /\ temperature = 40

\* C10: adjustTemperature(delta) on a powered-on device stores the float sum
\* old + delta, which is the exact sum wherever that is a float, unclamped
\* below 0 and above 40, and changes no other field.
C10_AdjustWhenOn ==
    (last.op = "adjustTemperature" /\ last.old.isPoweredOn)
    => /\ temperature = FloatRound(last.old.temperature + last.arg)
       /\ Abs(last.old.temperature + last.arg) <= FloatExact
             => temperature = last.old.temperature + last.arg
       /\ deviceName = last.old.deviceName
       /\ deviceType = last.old.deviceType
       /\ isPoweredOn = last.old.isPoweredOn
       /\ batteryLevel = last.old.batteryLevel
       /\ location = last.old.location

C10_Witness ==
    /\ last.op = "adjustTemperature"
    /\ last.old.isPoweredOn
    /\ last.old.temperature = 0
    /\ last.arg = -5
    /\ temperature = -5

(***************************************************************************)
(* The effect of a call, as the claims state it                            *)
(***************************************************************************)
Line(name, message) == [name |-> name, message |-> message]

\* the six fields of the record o
Kept(o) == [deviceName |-> o.deviceName, deviceType |-> o.deviceType,
            isPoweredOn |-> o.isPoweredOn, batteryLevel |-> o.batteryLevel,
            temperature |-> o.temperature, location |-> o.location]

Effect(f, ret, out) == [f |-> f, ret |-> ret, out |-> out]

\* what the call op(arg) does to a device with fields o: the new fields, the
\* value returned and the log entries, none of which reads o.logFile
Expected(op, arg, o) ==
    CASE op = "setDeviceName" ->
           Effect([Kept(o) EXCEPT !.deviceName = arg], "void",
                  <<Line(arg, "Device name changed to: " \o arg)>>)
      [] op = "setDeviceType" ->
           Effect([Kept(o) EXCEPT !.deviceType = arg], "void",
                  <<Line(o.deviceName, "Device type changed to: " \o arg)>>)
      [] op = "setLocation" ->
           Effect([Kept(o) EXCEPT !.location = arg], "void",
                  <<Line(o.deviceName, "Location changed to: " \o arg)>>)
      [] op = "setPoweredOn" ->
           Effect([Kept(o) EXCEPT !.isPoweredOn = arg], "void",
                  <<Line(o.deviceName, "Device power state changed to: "
                                          \o (IF arg THEN "ON" ELSE "OFF"))>>)
      [] op = "setBatteryLevel" ->
           Effect([Kept(o) EXCEPT !.batteryLevel = Clamp(arg, 0, 100)], "void",
                  <<Line(o.deviceName, "Battery level set to: "
                                          \o IntToString(Clamp(arg, 0, 100)) \o "%")>>)
      [] op = "setTemperature" ->
           Effect([Kept(o) EXCEPT !.temperature = arg], "void",
                  <<Line(o.deviceName, "Temperature set to: "
                                          \o FloatToString(arg) \o "°C")>>)
      [] op = "powerToggle" ->
           Effect([Kept(o) EXCEPT !.isPoweredOn = ~o.isPoweredOn], "void",
                  <<Line(o.deviceName, "Device toggled to: "
                                          \o (IF o.isPoweredOn THEN "OFF" ELSE "ON"))>>)
      [] op = "chargeBattery" ->
           IF o.isPoweredOn
           THEN LET new == NewLevel(o.batteryLevel, arg)
                IN  Effect([Kept(o) EXCEPT !.batteryLevel = new], TRUE,
                           <<Line(o.deviceName,
                                  "Battery charged by "
                                    \o IntToString(SubInt(new, o.batteryLevel))
                                    \o "%. New level: " \o IntToString(new) \o "%")>>)
           ELSE Effect(Kept(o), FALSE,
                       <<Line(o.deviceName, "Cannot charge - device is powered off")>>)
      [] op = "adjustTemperature" ->
           IF o.isPoweredOn
           THEN LET new == FloatRound(o.temperature + arg)
                IN  Effect([Kept(o) EXCEPT !.temperature = new], "void",
                           <<Line(o.deviceName,
                                  "Temperature adjusted from "
                                    \o FloatToString(o.temperature) \o "°C to "
                                    \o FloatToString(new) \o "°C")>>)
           ELSE Effect(Kept(o), "void",
                       <<Line(o.deviceName,
                              "Cannot adjust temperature - device is powered off")>>)
      [] op = "performDiagnostics" ->
           Effect(Kept(o), "void",
                  << Line(o.deviceName, "Starting diagnostics..."),
                     Line(o.deviceName, "Checking power: "
                                           \o (IF o.isPoweredOn THEN "OK" ELSE "OFF")),
                     Line(o.deviceName, "Checking battery level: "
                                           \o IntToString(o.batteryLevel) \o "%"),
                     Line(o.deviceName, IF o.batteryLevel < 20
                                        THEN "WARNING: Low battery detected!"
                                        ELSE "Battery level OK"),
                     Line(o.deviceName, "Checking temperature: "
                                           \o FloatToString(o.temperature) \o "°C"),
                     Line(o.deviceName, IF o.temperature < 0 \/ o.temperature > 80
                                        THEN "WARNING: Temperature outside normal operating range!"
                                        ELSE "Temperature OK"),
                     Line(o.deviceName, "Diagnostics completed") >>)
      [] op = "~SmartDevice" ->
           Effect(Kept(o), "void",
                  <<Line(o.deviceName, "Device " \o o.deviceName \o " destroyed")>>)

Operations == Mutators \cup {"performDiagnostics", "~SmartDevice"}

\* what the last call did: the fields now, the value returned, the entries on cout
Actual ==
    Effect([deviceName |-> deviceName, deviceType |-> deviceType,
            isPoweredOn |-> isPoweredOn, batteryLevel |-> batteryLevel,
            temperature |-> temperature, location |-> location],
           last.ret,
           [i \in 1..Len(Entries) |-> Line(Entries[i].name, Entries[i].message)])

\* the entries the last call wrote to the file
ActualFile == [i \in 1..Len(FileEntries) |->
                  Line(FileEntries[i].name, FileEntries[i].message)]

OpenFailed == \E i \in 1..Len(io) : io[i].ch = "openfail"
Opened == \E i \in 1..Len(io) : io[i].ch = "open"

\* C11: the power check gates chargeBattery and adjustTemperature only.  A
\* setter stores its argument and logs the same entry whether the device was
\* on or off, and touches isPoweredOn only if it is setPoweredOn; powerToggle
\* flips isPoweredOn from either state.
Setters == {"setDeviceName", "setDeviceType", "setLocation", "setPoweredOn",
            "setBatteryLevel", "setTemperature"}

C11_NoOtherGate ==
    /\ last.op \in Setters =>
          /\ OneEntry
          /\ isPoweredOn = (IF last.op = "setPoweredOn" THEN last.arg
                            ELSE last.old.isPoweredOn)
          /\ \A p \in BOOLEAN :
                LET e == Expected(last.op, last.arg, [last.old EXCEPT !.isPoweredOn = p])
                IN  /\ Actual.out = e.out
                    /\ [Actual.f EXCEPT !.isPoweredOn = p] = [e.f EXCEPT !.isPoweredOn = p]
    /\ last.op = "powerToggle" =>
          /\ OneEntry
          /\ isPoweredOn = ~last.old.isPoweredOn
          /\ Entries[1].message = "Device toggled to: " \o (IF isPoweredOn THEN "ON" ELSE "OFF")
          /\ [Actual.f EXCEPT !.isPoweredOn = TRUE]
                = [Kept(last.old) EXCEPT !.isPoweredOn = TRUE]

C11_Witness ==
    /\ last.op = "setTemperature"
    /\ ~last.old.isPoweredOn
    /\ last.arg = 81
    /\ last.old.temperature = 40
    /\ temperature = 81

Ctors == {"SmartDevice()", "SmartDevice(name)", "SmartDevice(name,type)",
          "SmartDevice(name,type,loc)", FullCtor}

\* C12: when the log file cannot be opened the constructor still completes,
\* with its entries on cout and one notice on cerr; every later call changes
\* the fields, returns and writes to cout exactly as Expected says, which is
\* what it does with an open file too; nothing is ever written to the file.
C12_OpenFailureDegrades ==
    /\ last.op \in Operations => Actual = Expected(last.op, last.arg, last.old)
    /\ last.op \in Queries => (Actual.f = Kept(last.old) /\ Emitted = <<>>)
    /\ OpenFailed =>
          /\ life # "unborn"
          /\ ~logFile
          /\ ~Opened
          /\ Sink = <<>>
          /\ \A i \in 1..Len(io) : io[i].ch \in {"openfail", "cerr", "cout"}
          /\ Len(Lines(io, "cerr")) = 1
          /\ Lines(io, "cerr")[1].message = "Failed to open log file: device_log.txt"
          /\ last.op \in Ctors => (life = "alive" /\ Len(Entries) = ctorLogs /\ ctorLogs >= 1)

C12_Witness ==
    /\ OpenFailed
    /\ last.op = "chargeBattery"
    /\ last.ret = TRUE
    /\ last.arg = 90
    /\ batteryLevel = 100
    /\ Len(Console) = 2
    /\ Sink = <<>>

Count(ch) == Len(Lines(io, ch))

\* the teardown entry, as the device named n writes it
Teardown(ch, n) == Event(ch, n, "Device " \o n \o " destroyed")

\* C13 as claimed: in the lifetime of a device the file is opened exactly once,
\* in the constructor and before the first entry, and closed exactly once, in
\* the destructor, after the teardown entry, which is the last entry.
C13_OpenedOnceClosedOnce ==
    /\ life # "unborn" => (Count("open") = 1 /\ io[1].ch = "open")
    /\ life = "alive" => Count("close") = 0
    /\ life = "destroyed" =>
          /\ Count("close") = 1
          /\ Len(io) >= 3
          /\ io[Len(io)].ch = "close"
          /\ io[Len(io) - 1] = Teardown("cout", deviceName)
          /\ io[Len(io) - 2] = Teardown("file", deviceName)

\* C13 as amended: the open is attempted exactly once, in the constructor and
\* before the first entry.  If it succeeds the file is closed exactly once, in
\* the destructor, as the last event, right after the teardown entry has gone
\* to the file and to cout.  If it fails the file is never opened nor closed,
\* and the teardown entry, still the last one, goes to cout only.
C13_OpenedOnceClosedIfOpened ==
    /\ life # "unborn" =>
          /\ Count("open") + Count("openfail") = 1
          /\ io[1].ch \in {"open", "openfail"}
          /\ logFile = (Opened /\ life = "alive")
    /\ life = "alive" => Count("close") = 0
    /\ (life = "destroyed" /\ Opened) =>
          /\ Count("close") = 1
          /\ Len(io) >= 3
          /\ io[Len(io)].ch = "close"
          /\ io[Len(io) - 1] = Teardown("cout", deviceName)
          /\ io[Len(io) - 2] = Teardown("file", deviceName)
    /\ (life = "destroyed" /\ OpenFailed) =>
          /\ Count("close") = 0
          /\ Count("file") = 0
          /\ io[Len(io)] = Teardown("cout", deviceName)

C13_Witness ==
    /\ life = "destroyed"
    /\ Opened
    /\ nCalls = MaxCalls
    /\ io[Len(io)].ch = "close"
    /\ io[Len(io) - 2] = Teardown("file", deviceName)

\* the messages of the entries of the last call, in order
MessageSeq == [i \in 1..Len(Entries) |-> Entries[i].message]

\* C14: a constructor given name, then type, then location makes the
\* "created" entry first and then one entry per argument, in that order; the
\* six-argument constructor makes one entry; in each the open of the file
\* comes before the first entry, so that every entry reaches an opened file.
C14_CtorEntries ==
    /\ last.op = "SmartDevice()" =>
          MessageSeq = <<"Device created with default parameters">>
    /\ last.op = "SmartDevice(name)" =>
          MessageSeq = <<"Device created with default parameters",
                         "Device name set to: " \o last.arg[1]>>
    /\ last.op = "SmartDevice(name,type)" =>
          MessageSeq = <<"Device created with default parameters",
                         "Device name set to: " \o last.arg[1],
                         "Device type set to: " \o last.arg[2]>>
    /\ last.op = "SmartDevice(name,type,loc)" =>
          MessageSeq = <<"Device created with default parameters",
                         "Device name set to: " \o last.arg[1],
                         "Device type set to: " \o last.arg[2],
                         "Device location set to: " \o last.arg[3]>>
    /\ last.op = FullCtor =>
          MessageSeq = <<"Device fully initialized with custom parameters">>
    /\ last.op \in Ctors =>
          /\ Emitted = io
          /\ io[1].ch \in {"open", "openfail"}
          /\ \A i \in 2..Len(io) : io[i].ch \notin {"open", "openfail"}
          /\ io[1].ch = "open" => (logFile /\ ActualFile = Actual.out)

C14_Witness ==
    /\ last.op = "SmartDevice(name,type,loc)"
    /\ Len(Entries) = 4
    /\ io[1].ch = "open"
    /\ Len(FileEntries) = 4

\* the lines of channel ch, without the channel
Written(ch) == [i \in 1..Count(ch) |-> Line(Lines(io, ch)[i].name, Lines(io, ch)[i].message)]

\* C15: with the file open, each log call writes its line to the file and
\* then the same line to cout, one call after the other; so the lines in the
\* file are the lines on cout, in the same order.
C15_SinkThenConsole ==
    Opened =>
        /\ Written("file") = Written("cout")
        /\ \A i \in 1..Len(io) :
              /\ io[i].ch = "file" =>
                    (i < Len(io) /\ io[i + 1] = [io[i] EXCEPT !.ch = "cout"])
              /\ io[i].ch = "cout" =>
                    (i > 1 /\ io[i - 1] = [io[i] EXCEPT !.ch = "file"])

C15_Witness ==
    /\ Opened
    /\ last.op = "performDiagnostics"
    /\ Len(FileEntries) = 7
    /\ Count("file") >= 9
    /\ Written("file") = Written("cout")

\* C16: performDiagnostics and each of the eight queries leave every field as
\* it was; a query makes no log entry and no other output.
C16_ReadOnly ==
    /\ last.op = "performDiagnostics" => FieldsUnchanged
    /\ last.op \in Queries =>
          /\ FieldsUnchanged
          /\ Emitted = <<>>
          /\ logFile = last.old.logFile

C16_Witness ==
    /\ last.op = "getDeviceStatus"
    /\ last.ret = "Device: X (Y)\nLocation: Z\nPower: ON\nBattery: 19%\nTemperature: 40.500000°C"
    /\ batteryLevel = 19
    /\ temperature = 81
    /\ Emitted = <<>>

\* new - old is an int
DiffFits(new, old) == IF old >= 0 THEN new >= IntMin + old ELSE new <= IntMax + old

\* C17: the entry of an applied chargeBattery records new level - old level
\* as the amount charged, and the new level.
C17_LoggedDelta ==
    (last.op = "chargeBattery" /\ last.old.isPoweredOn) =>
        /\ OneEntry
        /\ DiffFits(batteryLevel, last.old.batteryLevel)
        /\ Entries[1].message =
              "Battery charged by "
                \o IntToString(batteryLevel - last.old.batteryLevel)
                \o "%. New level: " \o IntToString(batteryLevel) \o "%"

\* C18: isLowBattery() returns true exactly when batteryLevel < 20, whatever
\* the power state and the temperature.
C18_LowBatteryIff ==
    last.op = "isLowBattery" =>
        /\ last.ret \in BOOLEAN
        /\ last.ret <=> (batteryLevel < 20)

C18_Witness ==
    /\ last.op = "isLowBattery"
    /\ batteryLevel = 20
    /\ last.ret = FALSE
    /\ isPoweredOn
    /\ temperature > 80

\* C19: each entry is prefixed with deviceName as it is when the entry is
\* written: the new name for the entry of setDeviceName, "Unknown" for the
\* "created" entry of a delegating constructor and the given name for its
\* later entries, the current name for the teardown entry and for the
\* entries of every other call; the file gets the same prefixes.
C19_NamePrefix ==
    /\ last.op = "setDeviceName" =>
          (Len(Entries) = 1 /\ Entries[1].name = last.arg /\ deviceName = last.arg)
    /\ last.op \in {"SmartDevice(name)", "SmartDevice(name,type)",
                    "SmartDevice(name,type,loc)"} =>
          /\ Entries[1].name = "Unknown"
          /\ Entries[1].message = "Device created with default parameters"
          /\ \A i \in 2..Len(Entries) : Entries[i].name = last.arg[1]
          /\ deviceName = last.arg[1]
    /\ last.op = "SmartDevice()" =>
          \A i \in 1..Len(Entries) : Entries[i].name = "Unknown"
    /\ last.op = FullCtor =>
          \A i \in 1..Len(Entries) : Entries[i].name = last.arg.name
    /\ last.op = "~SmartDevice" =>
          /\ Len(Entries) = 1
          /\ Entries[1].name = last.old.deviceName
          /\ Entries[1].message = "Device " \o last.old.deviceName \o " destroyed"
    /\ last.op \in (Operations \ {"setDeviceName", "~SmartDevice"}) =>
          /\ Len(Entries) >= 1
          /\ \A i \in 1..Len(Entries) : Entries[i].name = last.old.deviceName
          /\ deviceName = last.old.deviceName
    /\ last.old.logFile =>
          /\ Len(FileEntries) = Len(Entries)
          /\ \A i \in 1..Len(Entries) : FileEntries[i].name = Entries[i].name

C19_Witness ==
    /\ last.op = "setDeviceName"
    /\ last.old.deviceName = "X"
    /\ last.arg = "Main Hub"
    /\ Entries[1].name = "Main Hub"
    /\ Len(FileEntries) = 1
    /\ FileEntries[1].name = "Main Hub"

====
